---------------------------- MODULE Spec2Model ----------------------------
(***************************************************************************)
(* Batch synchronisation engine of Proyecto_ETL-FastAPI.                   *)
(*                                                                         *)
(*   - src/modules/expedientes.py: process_batch_improved (one batch, with *)
(*     its retry loop) and process_expedientes_data_improved (partitioned  *)
(*     job on a thread pool);                                              *)
(*   - src/processing.py: process_batch_insert / process_batch_update and  *)
(*     insert_data_to_table_optimized (the generic loader).                *)
(*                                                                         *)
(* Cell values are strings.  NULL stands for None / NaN / SQL NULL and     *)
(* ABSENT for a key that a Python dict does not hold.                      *)
(***************************************************************************)
EXTENDS Integers, Sequences, FiniteSets, TLC

VARIABLES
    \* ---- partitioned job (expedientes.py) ----
    df,                  \* the job's DataFrame: sequence of rows
    hashOf,              \* hash(str) of this interpreter run, per business key
    mode,                \* "sync" | "insert" | "update"
    expedientes,         \* committed rows of table expedientes, index = id_exp
    jpc,                 \* position of process_expedientes_data_improved
    batches,             \* (batch, batch_counter, partition_id) tuples
    status,              \* per batch: queued | running | returned | raised
    retry_count,         \* per batch: local of process_batch_improved
    batch_results,       \* per batch: local dict of process_batch_improved
    global_error_count,  \* module global _global_error_count
    all_results,         \* results collected from the futures
    report,              \* consolidated totals of the job
    \* ---- bookkeeping of the runs (read by the properties only) ----
    attempts,            \* per batch: iterations of the while loop started
    retry_cause,         \* per batch: kind of the failure that led to a retry
    last_fail,           \* per batch: the failure of the latest attempt
    committed,           \* per batch: conn.commit() succeeded
    nfail,               \* failures injected so far
    run,                 \* 1, or 2 once the same batch is submitted again
    store0,              \* expedientes when the current run started
    \* ---- generic loader (processing.py) ----
    table,               \* committed rows of the target table
    table0,              \* the target table when the loader was called
    column_mapping,      \* dict column_mapping: (source column, target column)
    upload_columns,      \* columns of the uploaded DataFrame
    http_status,         \* status of the HTTPException raised by the loader, or 0
    conn,                \* the connection of the loader: none | open | closed
    df_final,            \* rows of the upload, after the column mapping
    fk_mappings,         \* columns mapped to a referenced table
    lookup_queries,      \* lookup queries run by resolve_foreign_keys_batch
    fk_error_row_details, \* rows refused by the validation of the FKs
    unique_key,          \* the target table has a unique constraint on its key
    columns,             \* columns of the mapped upload
    data_list,           \* rows handed to the pool
    gpc,                 \* position of insert_data_to_table_optimized
    gbatches,            \* data_list cut into batches
    wk,                  \* per batch: the locals of process_batch_insert/update
    collected,           \* batches whose future has been read
    greport,             \* the dict returned by the loader
    \* ---- the lock of the error counter (expedientes.py) ----
    lock,                \* the threads that hold _error_count_lock
    th,                  \* per thread: position, value loaded, errors to come
    handled              \* error handlers that have left the "with" block

jobVars == <<df, hashOf, mode, expedientes, jpc, batches, status, retry_count,
             batch_results, global_error_count, all_results, report>>
histVars == <<attempts, retry_cause, last_fail, committed, nfail, run, store0>>
fkVars == <<table0, df_final, fk_mappings, lookup_queries, fk_error_row_details,
            column_mapping, upload_columns, http_status, conn>>
genVars == <<table, unique_key, columns, data_list, gpc, gbatches, wk,
             collected, greport, fkVars>>
lockVars == <<lock, th, handled>>
vars == <<jobVars, histVars, genVars, lockVars>>

---------------------------------------------------------------------------
(* Values *)

\* the generic loader is not running
GenIdle ==
    /\ table = <<>>
    /\ table0 = <<>>
    /\ column_mapping = <<>>
    /\ upload_columns = <<>>
    /\ http_status = 0
    /\ conn = "none"
    /\ df_final = <<>>
    /\ fk_mappings = {}
    /\ lookup_queries = 0
    /\ fk_error_row_details = <<>>
    /\ unique_key = FALSE
    /\ columns = <<>>
    /\ data_list = <<>>
    /\ gpc = "idle"
    /\ gbatches = <<>>
    /\ wk = <<>>
    /\ collected = {}
    /\ greport = <<>>

\* no thread is at the error counter
LockIdle ==
    /\ lock = {}
    /\ th = <<>>
    /\ handled = 0

\* process_expedientes_data_improved is not running
JobIdle ==
    /\ df = <<>>
    /\ hashOf = <<>>
    /\ expedientes = <<>>
    /\ jpc = "idle"
    /\ batches = <<>>
    /\ status = <<>>
    /\ retry_count = <<>>
    /\ batch_results = <<>>
    /\ global_error_count = 0
    /\ all_results = <<>>
    /\ report = <<>>
    /\ attempts = <<>>
    /\ retry_cause = <<>>
    /\ last_fail = <<>>
    /\ committed = <<>>
    /\ run = 1
    /\ store0 = <<>>

NULL == "NULL"
ABSENT == "ABSENT"

\* str.strip() on the strings of the model
Strip(v) == IF v = "x " THEN "x" ELSE IF v = " " THEN "" ELSE v

Max(S) == CHOOSE m \in S : \A n \in S : n <= m

Min2(a, b) == IF a <= b THEN a ELSE b

SumSeq(s) ==
    LET f[i \in 0..Len(s)] == IF i = 0 THEN 0 ELSE f[i - 1] + s[i]
    IN f[Len(s)]

\* columns of a row of the upload that the model keeps: the business key, the
\* cedula, one compared field (observaciones) and one volatile field (decision)
\* besides the two columns derived from the cedula
Fields == {"nro_expediente", "cedula", "funcionario_id",
           "cedula_anterior_no_registrada_en_rrhh", "observaciones", "decision"}

\* columns of table expedientes
Columns == Fields \ {"cedula"}

\* fields compared before an update; decision (with falta, estatus) is not
ComparedFields == {"funcionario_id", "observaciones",
                   "cedula_anterior_no_registrada_en_rrhh"}

VolatileFields == {"decision"}

\* table funcionarios: cedula -> id
funcionarios == [c \in {"c1"} |-> "f1"]

SpecialCedulas == {"6666", "9999"}

\* int(cedula_str) succeeds
IsInt(c) == c \in {"c1", "c2", "6666", "9999"}

max_retries == 1

\* the literal 20 that caps the detailed errors and the logged errors, scaled
\* to the size of the model
ErrorCap == 1

\* failures the store and the connection may raise in one behaviour
MaxFail == 2

\* rows of the batch handed to one call of process_batch_improved
MaxBatchRows == 2

\* rows of the DataFrame of a job
MaxJobRows == 3

\* rows of the upload given to the generic loader, and its parameters
\* batch_size and max_workers
MaxGenRows == 3
MaxRunRows == 2
MaxFkRows == 3

\* worker threads at the error counter, statement errors of each of them, and
\* the literal 20 of the counter scaled so that both limits are met
NThreads == 2
MaxErrors == 2
LockCap == 2
batch_size == 2
max_workers == 2

\* BATCH_SIZE = 3000 and MAX_THREADS = 6, scaled to the size of the model
BATCH_SIZE == 2
MAX_THREADS == 2

---------------------------------------------------------------------------
(* process_batch_improved: preparation of a row *)

\* the filter of one value: None/NaN drops the key, a blank string keeps the
\* key with None, anything else is kept
FilterValue(v) ==
    IF v = NULL THEN ABSENT
    ELSE IF Strip(v) = "" THEN NULL
    ELSE v

data_filtered(row) == [k \in Fields |-> FilterValue(row[k])]

\* dict.get
Get(d, k) == IF d[k] = ABSENT THEN NULL ELSE d[k]

Keys(d) == {k \in Fields : d[k] # ABSENT}

\* "if not data_filtered.get('nro_expediente')"
HasNro(d) == Get(d, "nro_expediente") \notin {NULL, ""}

\* rows kept in temp_data, as (excel_row, data_filtered)
temp_data(rows) ==
    LET all == [i \in 1..Len(rows) |->
                   [excel_row |-> rows[i].idx + 2, d |-> data_filtered(rows[i])]]
    IN SelectSeq(all, LAMBDA t : HasNro(t.d))

\* rows counted in rows_with_errors by the preparation loop
n_missing(rows) == Len(rows) - Len(temp_data(rows))

\* assignment of funcionario_id / cedula_anterior from the cedula
ResolveCedula(d) ==
    IF d["cedula"] \notin {ABSENT, NULL, ""}
    THEN LET cedula_str == Strip(d["cedula"])
         IN IF cedula_str \notin SpecialCedulas /\ cedula_str # ""
            THEN IF IsInt(cedula_str) /\ cedula_str \in DOMAIN funcionarios
                 THEN [d EXCEPT !["funcionario_id"] = funcionarios[cedula_str],
                                !["cedula_anterior_no_registrada_en_rrhh"] = NULL]
                 ELSE [d EXCEPT !["funcionario_id"] = NULL,
                                !["cedula_anterior_no_registrada_en_rrhh"] = cedula_str]
            ELSE d
    ELSE [d EXCEPT !["funcionario_id"] = NULL,
                   !["cedula_anterior_no_registrada_en_rrhh"] = NULL]

\* f"{nro_expediente}|{funcionario_id}|{cedula_anterior}"
composite_key(nro, funcionario_id, cedula_anterior) ==
    <<nro, funcionario_id, cedula_anterior>>

RecordKey(rec) ==
    composite_key(rec["nro_expediente"], rec["funcionario_id"],
                  rec["cedula_anterior_no_registrada_en_rrhh"])

RowKey(d) ==
    composite_key(d["nro_expediente"], Get(d, "funcionario_id"),
                  Get(d, "cedula_anterior_no_registrada_en_rrhh"))

\* existing_expedientes_dict.get(composite_key): the rows are read ORDER BY
\* id_exp ASC and a later row replaces an earlier one under the same key.
\* The id_exp found, 0 for None.
existing_lookup(store, nros, ck) ==
    LET ids == {i \in 1..Len(store) :
                   store[i]["nro_expediente"] \in nros /\ RecordKey(store[i]) = ck}
    IN IF ids = {} THEN 0 ELSE Max(ids)

valores_identicos(val1, val2) ==
    IF val1 = NULL /\ val2 = NULL THEN TRUE
    ELSE IF val1 = NULL \/ val2 = NULL THEN FALSE
    ELSE Strip(val1) = Strip(val2)

\* a comparison that looks at the funcionario only
should_update_funcionario_only(existing, d) ==
    valores_identicos(existing["funcionario_id"], Get(d, "funcionario_id"))

should_update(existing, d) ==
    \A f \in ComparedFields : valores_identicos(existing[f], Get(d, f))

\* columns written by the UPDATE of a row
set_values(d) == Keys(d) \ {"nro_expediente", "cedula"}

\* the decision loop: per row of temp_data the resolved row and the id_exp to
\* update (0: the row goes to inserts_batch)
decisions(store, rows) ==
    LET td == temp_data(rows)
        nros == {td[i].d["nro_expediente"] : i \in 1..Len(td)}
    IN [i \in 1..Len(td) |->
          LET d == ResolveCedula(td[i].d)
              ex == existing_lookup(store, nros, RowKey(d))
          IN [excel_row |-> td[i].excel_row,
              d |-> d,
              target |-> IF ex # 0 /\ should_update(store[ex], d) THEN ex ELSE 0]]

updates_batch(store, rows) ==
    SelectSeq(decisions(store, rows),
              LAMBDA t : t.target # 0 /\ set_values(t.d) # {})

inserts_batch(store, rows) ==
    SelectSeq(decisions(store, rows), LAMBDA t : t.target = 0)


---------------------------------------------------------------------------
(* process_batch_improved: the statements sent to the store *)

\* UPDATE expedientes SET <set_values> WHERE id_exp = target
ApplyUpdate(store, u) ==
    [store EXCEPT ![u.target] =
        [c \in Columns |-> IF c \in set_values(u.d) THEN u.d[c] ELSE @[c]]]

\* the first n UPDATEs of updates_batch, in order
ApplyUpdates(store, ups, n) ==
    LET f[i \in 0..n] == IF i = 0 THEN store ELSE ApplyUpdate(f[i - 1], ups[i])
    IN f[n]

\* columns of the executemany INSERT: the keys of the first row to insert
insert_columns(ins) == Keys(ins[1].d) \ {"cedula"}

\* one row of values_list, as stored: a column that is not listed gets NULL
NewRecord(cols, d) == [c \in Columns |-> IF c \in cols THEN Get(d, c) ELSE NULL]

ApplyInserts(store, ins) ==
    IF ins = <<>> THEN store
    ELSE store \o [i \in 1..Len(ins) |-> NewRecord(insert_columns(ins), ins[i].d)]

---------------------------------------------------------------------------
(* process_batch_improved: failures and the retry loop *)

\* A psycopg2.Error is transient when the store signals a deadlock or an
\* aborted transaction, anything else (a constraint violation, a bad value)
\* is not.
Kinds == {"transient", "nontransient"}

NoFail == [at |-> "none", idx |-> 0, kind |-> "none"]

\* what one attempt does with the rows of the batch against the table as it
\* is: whether the sync branch runs, the UPDATEs and the rows of the INSERT it
\* sends, the rows it counts as errors while preparing them
plan(store, rows, m) ==
    IF m = "sync" /\ temp_data(rows) # <<>>
    THEN [sync |-> TRUE, ups |-> updates_batch(store, rows),
          ins |-> inserts_batch(store, rows), missing |-> n_missing(rows)]
    ELSE [sync |-> FALSE, ups |-> <<>>, ins |-> <<>>, missing |-> n_missing(rows)]

\* where an attempt can fail: opening the connection, the SELECT of the
\* existing rows, the j-th UPDATE, the executemany INSERT, the commit
FailPoints(p) ==
    {[at |-> "connect", idx |-> 0, kind |-> "nontransient"]}
    \cup {[at |-> "commit", idx |-> 0, kind |-> k] : k \in Kinds}
    \cup (IF p.sync
          THEN {[at |-> "select", idx |-> 0, kind |-> k] : k \in Kinds}
               \cup {[at |-> "update", idx |-> j, kind |-> k] :
                        j \in 1..Len(p.ups), k \in Kinds}
               \cup (IF p.ins # <<>>
                     THEN {[at |-> "insert", idx |-> 0, kind |-> k] : k \in Kinds}
                     ELSE {})
          ELSE {})

\* the test on the message of an error caught around the whole attempt
is_transaction_error(kind) == kind = "transient"

\* "deadlock_detected = True" in the handlers of the UPDATE and of the INSERT
statement_error_sets_deadlock(kind) == TRUE

\* a loop that allows one attempt more
retry_allowed_once_more(rc) == rc <= max_retries + 1

\* "retry_count <= max_retries": the while condition and the test after the
\* increment
retry_allowed(rc) == rc <= max_retries

\* "if len(batch_results['errors']) < 20: append"
append_error(errors, e) == IF Len(errors) < ErrorCap THEN Append(errors, e) ELSE errors

\* "with _error_count_lock: if _global_error_count < 20: += 1"
bump_global(gec) == IF gec < ErrorCap THEN gec + 1 ELSE gec

EmptyResults ==
    [rows_inserted |-> 0, rows_updated |-> 0, rows_with_errors |-> 0,
     processed_details |-> <<>>, errors |-> <<>>]

details(ts, action) ==
    [i \in 1..Len(ts) |-> [excel_row |-> ts[i].excel_row, action |-> action]]

\* One iteration of the while loop of process_batch_improved on the rows of a
\* batch, with failure f: the store, the locals and the global it leaves, and
\* how the iteration ends (again: the loop continues; raised: the exception
\* leaves the function; otherwise it returns batch_results).
attempt(p, store, br, rc, gec, f) ==
    LET ups == p.ups
        ins == p.ins
        nup == IF f.at = "select" THEN 0
               ELSE IF f.at = "update" THEN f.idx - 1
               ELSE Len(ups)
        ins_ok == f.at \in {"none", "commit"}
        stmt_error == f.at \in {"update", "insert"}
        outer_error == f.at \in {"select", "commit"}
        deadlock_detected ==
            \/ stmt_error /\ statement_error_sets_deadlock(f.kind)
            \/ outer_error /\ is_transaction_error(f.kind)
        rc1 == IF deadlock_detected THEN rc + 1 ELSE rc
        again == deadlock_detected /\ retry_allowed(rc1)
        errors1 == IF outer_error /\ ~is_transaction_error(f.kind)
                   THEN append_error(br.errors, "pg_error")
                   ELSE br.errors
        errors2 == IF deadlock_detected /\ ~again
                   THEN append_error(errors1, "deadlock_persistente")
                   ELSE errors1
        br1 == [rows_inserted |-> br.rows_inserted + (IF ins_ok THEN Len(ins) ELSE 0),
                rows_updated |-> br.rows_updated + nup,
                rows_with_errors |->
                    br.rows_with_errors + p.missing
                    + (IF f.at = "update" THEN 1
                       ELSE IF f.at = "insert" THEN Len(ins) ELSE 0),
                processed_details |->
                    br.processed_details
                    \o details(SubSeq(ups, 1, nup), "ACTUALIZADO")
                    \o (IF ins_ok THEN details(ins, "ANADIDO") ELSE <<>>),
                errors |-> errors2]
    IN IF f.at = "connect"
       THEN [expedientes |-> store, batch_results |-> br, retry_count |-> rc,
             global_error_count |-> gec, again |-> FALSE, raised |-> TRUE]
       ELSE [expedientes |->
                 IF f.at = "none"
                 THEN ApplyInserts(ApplyUpdates(store, ups, Len(ups)), ins)
                 ELSE store,
             batch_results |-> br1,
             retry_count |-> rc1,
             global_error_count |-> IF stmt_error THEN bump_global(gec) ELSE gec,
             again |-> again,
             raised |-> FALSE]


---------------------------------------------------------------------------
(* One worker thread running process_batch_improved on batch b *)

Failures(p) ==
    {NoFail} \cup (IF nfail < MaxFail THEN FailPoints(p) ELSE {})

\* one iteration of the while loop, from get_db_connection_local() to the
\* handling of the retry
WorkerAttempt(b) ==
    /\ status[b] = "running"
    /\ retry_allowed(retry_count[b])
    /\ \E p \in {plan(expedientes, batches[b].rows, mode)} :
       \E f \in Failures(p) :
          \E r \in {attempt(p, expedientes, batch_results[b], retry_count[b],
                            global_error_count, f)} :
             /\ expedientes' = r.expedientes
             /\ batch_results' = [batch_results EXCEPT ![b] = r.batch_results]
             /\ retry_count' = [retry_count EXCEPT ![b] = r.retry_count]
             /\ global_error_count' = r.global_error_count
             /\ status' = [status EXCEPT ![b] =
                              IF r.raised THEN "raised"
                              ELSE IF r.again THEN "running" ELSE "returned"]
             /\ attempts' = [attempts EXCEPT ![b] = @ + 1]
             /\ retry_cause' = [retry_cause EXCEPT ![b] = IF r.again THEN f.kind ELSE @]
             /\ last_fail' = [last_fail EXCEPT ![b] = f]
             /\ committed' = [committed EXCEPT ![b] = f.at = "none"]
             /\ nfail' = nfail + (IF f = NoFail THEN 0 ELSE 1)
    /\ UNCHANGED <<df, hashOf, mode, jpc, batches, all_results, report, run, store0>>
    /\ UNCHANGED <<genVars, lockVars>>

---------------------------------------------------------------------------
(* process_batch_improved called on one batch, then once more on the same  *)
(* batch                                                                   *)

mkrow(nro, ced, obs, dec) ==
    [nro_expediente |-> nro, cedula |-> ced, funcionario_id |-> NULL,
     cedula_anterior_no_registrada_en_rrhh |-> NULL,
     observaciones |-> obs, decision |-> dec]

\* rows of the upload: with a business key, or without one
RowValues ==
    {mkrow("A", ced, obs, dec) :
        ced \in {NULL, "c1"}, obs \in {NULL, "x", "x "}, dec \in {NULL, "d"}}
    \cup {mkrow(NULL, NULL, "x", NULL)}

mkrec(nro, func, obs, dec) ==
    [nro_expediente |-> nro, funcionario_id |-> func,
     cedula_anterior_no_registrada_en_rrhh |-> NULL,
     observaciones |-> obs, decision |-> dec]

\* contents of table expedientes before the call: empty; one record; two
\* records under one composite key, as left by a sync of ("A", x) followed by a
\* sync of ("A", no observaciones); records of another expediente and of
\* another funcionario
StoreValues ==
    { <<>>,
      <<mkrec("A", NULL, "x", "e")>>,
      <<mkrec("A", NULL, "x", "e"), mkrec("A", NULL, NULL, "e")>>,
      <<mkrec("B", NULL, "x", "e"), mkrec("A", "f1", NULL, NULL)>> }

\* the rows with their DataFrame index
Indexed(vals) == [i \in 1..Len(vals) |-> [k \in Fields \cup {"idx"} |->
                     IF k = "idx" THEN i - 1 ELSE vals[i][k]]]

BatchInputs ==
    {Indexed(vals) : vals \in UNION {[1..n -> RowValues] : n \in 1..MaxBatchRows}}

\* the state when process_batch_improved is called on one of the batches
\* inputs, in one of the modes, against one of the tables stores
InitCall(inputs, modes, stores) ==
    /\ df = <<>>
    /\ hashOf = <<>>
    /\ mode \in modes
    /\ expedientes \in stores
    /\ jpc = "batch"
    /\ \E rows \in inputs :
          batches = <<[rows |-> rows, batch_number |-> 1, partition_id |-> 0]>>
    /\ status = <<"running">>
    /\ retry_count = <<0>>
    /\ batch_results = <<EmptyResults>>
    /\ global_error_count = 0
    /\ all_results = <<>>
    /\ report = <<>>
    /\ attempts = <<0>>
    /\ retry_cause = <<"none">>
    /\ last_fail = <<NoFail>>
    /\ committed = <<FALSE>>
    /\ nfail = 0
    /\ run = 1
    /\ store0 = expedientes
    /\ GenIdle
    /\ LockIdle

InitBatch == InitCall(BatchInputs, {"sync", "insert"}, StoreValues)

\* the same batch is handed to process_batch_improved again, against the
\* table as the first call left it
Resubmit ==
    /\ jpc = "batch"
    /\ run = 1
    /\ status[1] = "returned"
    /\ committed[1]
    /\ run' = 2
    /\ status' = <<"running">>
    /\ retry_count' = <<0>>
    /\ batch_results' = <<EmptyResults>>
    /\ attempts' = <<0>>
    /\ retry_cause' = <<"none">>
    /\ last_fail' = <<NoFail>>
    /\ committed' = <<FALSE>>
    /\ store0' = expedientes
    /\ UNCHANGED <<df, hashOf, mode, expedientes, jpc, batches,
                   global_error_count, all_results, report, nfail>>
    /\ UNCHANGED <<genVars, lockVars>>

NextBatch ==
    \/ WorkerAttempt(1)
    \/ Resubmit

SpecBatch == InitBatch /\ [][NextBatch]_vars

\* The retry loop under every sequence of failures: a row that is updated,
\* a row that is inserted, a row without business key.
RetryRowValues ==
    {mkrow("A", NULL, "x", "d"), mkrow("A", NULL, NULL, "d"),
     mkrow(NULL, NULL, "x", NULL)}

RetryInputs ==
    {Indexed(vals) : vals \in UNION {[1..n -> RetryRowValues] : n \in 1..MaxBatchRows}}

InitRetry == InitCall(RetryInputs, {"sync", "insert"}, StoreValues)

NextRetry == WorkerAttempt(1)

\* the thread that runs the call is never suspended for ever
SpecRetry == InitRetry /\ [][NextRetry]_vars /\ WF_vars(NextRetry)

---------------------------------------------------------------------------
(* process_expedientes_data_improved: partitioning, the pool, the report   *)

\* df['nro_expediente'].astype(str)
astype_str(v) == IF v = NULL THEN "nan" ELSE v

\* a partition key taken from the position of the row in the DataFrame
partition_key_by_index(row) == row["idx"] % MAX_THREADS

\* hash(x) % MAX_THREADS
partition_key(row) == hashOf[astype_str(row["nro_expediente"])]

\* the rows of a partition, last row first
partition_df_reversed(rows, partition_id) ==
    LET sel == SelectSeq(rows, LAMBDA r : partition_key(r) = partition_id)
    IN [i \in 1..Len(sel) |-> sel[Len(sel) + 1 - i]]

\* df[df['_partition_key'] == partition_id]: the rows of a partition, in the
\* order of the DataFrame
partition_df(rows, partition_id) ==
    SelectSeq(rows, LAMBDA r : partition_key(r) = partition_id)

\* partition_df.iloc[i:i + BATCH_SIZE] for i in range(0, len, BATCH_SIZE)
slices(pdf) ==
    [k \in 1..((Len(pdf) + BATCH_SIZE - 1) \div BATCH_SIZE) |->
        SubSeq(pdf, (k - 1) * BATCH_SIZE + 1,
               IF k * BATCH_SIZE < Len(pdf) THEN k * BATCH_SIZE ELSE Len(pdf))]

\* the list batches: for each partition in turn its slices, numbered by
\* batch_counter
make_batches(rows) ==
    LET f[p \in 0..MAX_THREADS] ==
            IF p = 0 THEN <<>>
            ELSE LET sl == slices(partition_df(rows, p - 1))
                 IN f[p - 1] \o [k \in 1..Len(sl) |->
                        [rows |-> sl[k], batch_number |-> Len(f[p - 1]) + k,
                         partition_id |-> p - 1]]
    IN f[MAX_THREADS]

\* the result recorded for a future that raised
FutureError ==
    [rows_inserted |-> 0, rows_updated |-> 0, rows_with_errors |-> 1,
     processed_details |-> <<>>, errors |-> <<"future_error">>]

Flatten(ss) ==
    LET f[i \in 0..Len(ss)] == IF i = 0 THEN <<>> ELSE f[i - 1] \o ss[i]
    IN f[Len(ss)]

\* a consolidation that stops at the first result of a future that raised
consolidate_until_error(results) ==
    LET bad == {i \in 1..Len(results) : results[i] = FutureError}
        n == IF bad = {} THEN Len(results)
             ELSE (CHOOSE i \in bad : \A j \in bad : i <= j) - 1
        kept == SubSeq(results, 1, n)
    IN [added_count |-> SumSeq([i \in 1..n |-> kept[i].rows_inserted]),
        updated_count |-> SumSeq([i \in 1..n |-> kept[i].rows_updated]),
        total_errors |-> SumSeq([i \in 1..n |-> kept[i].rows_with_errors]),
        processing_errors |-> Flatten([i \in 1..n |-> kept[i].errors]),
        processed_details |-> Flatten([i \in 1..n |-> kept[i].processed_details]),
        batches_processed |-> Len(results)]

\* the consolidation of all_results
consolidate(results) ==
    [added_count |-> SumSeq([i \in 1..Len(results) |-> results[i].rows_inserted]),
     updated_count |-> SumSeq([i \in 1..Len(results) |-> results[i].rows_updated]),
     total_errors |-> SumSeq([i \in 1..Len(results) |-> results[i].rows_with_errors]),
     processing_errors |-> Flatten([i \in 1..Len(results) |-> results[i].errors]),
     processed_details |->
         Flatten([i \in 1..Len(results) |-> results[i].processed_details]),
     batches_processed |-> Len(results)]

Running == {b \in 1..Len(batches) : status[b] = "running"}

\* reset of the global counter, partitioning, submission of every batch
StartJob ==
    /\ jpc = "start"
    /\ global_error_count' = 0
    /\ batches' = make_batches(df)
    /\ status' = [b \in 1..Len(batches') |-> "queued"]
    /\ retry_count' = [b \in 1..Len(batches') |-> 0]
    /\ batch_results' = [b \in 1..Len(batches') |-> EmptyResults]
    /\ attempts' = [b \in 1..Len(batches') |-> 0]
    /\ retry_cause' = [b \in 1..Len(batches') |-> "none"]
    /\ last_fail' = [b \in 1..Len(batches') |-> NoFail]
    /\ committed' = [b \in 1..Len(batches') |-> FALSE]
    /\ jpc' = "pool"
    /\ UNCHANGED <<df, hashOf, mode, expedientes, all_results, report, nfail,
                   run, store0>>
    /\ UNCHANGED <<genVars, lockVars>>

\* a free thread of the pool takes the next submitted batch
WorkerStart(b) ==
    /\ jpc = "pool"
    /\ status[b] = "queued"
    /\ \A c \in 1..(b - 1) : status[c] # "queued"
    /\ Cardinality(Running) < MAX_THREADS
    /\ status' = [status EXCEPT ![b] = "running"]
    /\ UNCHANGED <<df, hashOf, mode, expedientes, jpc, batches, retry_count,
                   batch_results, global_error_count, all_results, report,
                   histVars, genVars, lockVars>>

\* a collection loop that lets the exception of a future propagate: the job
\* is aborted
Collect_reraise ==
    /\ jpc = "pool"
    /\ Len(all_results) < Len(batches)
    /\ LET b == Len(all_results) + 1
       IN /\ status[b] \in {"returned", "raised"}
          /\ IF status[b] = "returned"
             THEN /\ all_results' = Append(all_results, batch_results[b])
                  /\ jpc' = jpc
             ELSE /\ all_results' = all_results
                  /\ jpc' = "aborted"
    /\ UNCHANGED <<df, hashOf, mode, expedientes, batches, status,
                   retry_count, batch_results, global_error_count, report,
                   histVars, genVars, lockVars>>

\* future.result() of the next future, in the order of submission
Collect ==
    /\ jpc = "pool"
    /\ Len(all_results) < Len(batches)
    /\ LET b == Len(all_results) + 1
       IN /\ status[b] \in {"returned", "raised"}
          /\ all_results' = Append(all_results,
                                   IF status[b] = "returned" THEN batch_results[b]
                                   ELSE FutureError)
    /\ UNCHANGED <<df, hashOf, mode, expedientes, jpc, batches, status,
                   retry_count, batch_results, global_error_count, report,
                   histVars, genVars, lockVars>>

\* totals and the report returned to the caller
Consolidate ==
    /\ jpc = "pool"
    /\ Len(all_results) = Len(batches)
    /\ report' = consolidate(all_results)
    /\ jpc' = "done"
    /\ UNCHANGED <<df, hashOf, mode, expedientes, batches, status, retry_count,
                   batch_results, global_error_count, all_results, histVars,
                   genVars, lockVars>>

\* rows of a job: two business keys, or none
JobRowValues ==
    {mkrow(nro, NULL, "x", "d") : nro \in {"A", "B", NULL}}

JobInputs ==
    {Indexed(vals) : vals \in UNION {[1..n -> JobRowValues] : n \in 1..MaxJobRows}}

InitJob ==
    /\ df \in JobInputs
    /\ hashOf \in [{"A", "B", "nan"} -> 0..(MAX_THREADS - 1)]
    /\ mode = "sync"
    /\ expedientes = <<mkrec("A", NULL, "x", "e")>>
    /\ jpc = "start"
    /\ batches = <<>>
    /\ status = <<>>
    /\ retry_count = <<>>
    /\ batch_results = <<>>
    /\ global_error_count = ErrorCap
    /\ all_results = <<>>
    /\ report = <<>>
    /\ attempts = <<>>
    /\ retry_cause = <<>>
    /\ last_fail = <<>>
    /\ committed = <<>>
    /\ nfail = 0
    /\ run = 1
    /\ store0 = expedientes
    /\ GenIdle
    /\ LockIdle

NextJob ==
    \/ StartJob
    \/ \E b \in 1..Len(batches) : WorkerStart(b)
    \/ \E b \in 1..Len(batches) : WorkerAttempt(b)
    \/ Collect
    \/ Consolidate

SpecJob == InitJob /\ [][NextJob]_vars


---------------------------------------------------------------------------
(* processing.py: the store as seen through one psycopg2 connection        *)
(*                                                                         *)
(* A connection runs one transaction from its first statement to the next  *)
(* commit() or rollback().  txn is the list of its writes that are not     *)
(* committed yet; other connections do not see them.                       *)

\* the table after the writes ops
apply_ops(tbl, ops) ==
    LET f[n \in 0..Len(ops)] ==
            IF n = 0 THEN tbl
            ELSE IF ops[n].op = "ins"
                 THEN Append(f[n - 1], [key |-> ops[n].key, val |-> ops[n].val])
                 ELSE [j \in 1..Len(f[n - 1]) |->
                          IF f[n - 1][j].key = ops[n].key
                          THEN [key |-> ops[n].key, val |-> ops[n].val]
                          ELSE f[n - 1][j]]
    IN f[Len(ops)]

\* what the connection of batch b reads
visible(b) == apply_ops(table, wk[b].txn)

KeysOf(tbl) == {tbl[j].key : j \in 1..Len(tbl)}

\* conn.rollback(): every write of the transaction is undone
rollback(txn) == <<>>

\* "SELECT 1 FROM table WHERE key = %s" ... fetchone() is not None
key_exists(view, key) == key \in KeysOf(view)

\* the INSERT violates the unique constraint of the key column
violates_unique(view, key) == unique_key /\ key # NULL /\ key \in KeysOf(view)

\* non_key_columns
non_key_columns(cols, key_columns) ==
    SelectSeq(cols, LAMBDA c : \A j \in 1..Len(key_columns) : key_columns[j] # c)

\* value written for column val: the row's value if the column is mapped
written_val(row) ==
    IF \E j \in 1..Len(columns) : columns[j] = "val" THEN row.val ELSE NULL

\* the statement that the worker of batch b is about to execute for its row
next_stmt(b) ==
    LET w == wk[b]
        row == gbatches[b][w.i]
    IN IF w.pc # "write" THEN [op |-> "none", key |-> NULL]
       ELSE IF mode = "insert" THEN [op |-> "ins", key |-> row.key]
       ELSE IF row.key = NULL THEN [op |-> "none", key |-> NULL]
       ELSE IF w.exists
            THEN IF non_key_columns(columns, <<"key">>) # <<>>
                 THEN [op |-> "upd", key |-> row.key]
                 ELSE [op |-> "none", key |-> NULL]
            ELSE IF mode = "sync" THEN [op |-> "ins", key |-> row.key]
                 ELSE [op |-> "none", key |-> NULL]

\* the connections whose uncommitted write makes the statement of b wait: an
\* INSERT of the same unique key, an UPDATE of the same rows
waits_on(b) ==
    LET st == next_stmt(b)
    IN {c \in (1..Len(gbatches)) \ {b} :
          \E n \in 1..Len(wk[c].txn) :
             /\ wk[c].txn[n].key = st.key
             /\ wk[c].txn[n].op = st.op
             /\ st.op = "ins" => (unique_key /\ st.key # NULL)
             /\ st.op # "none"}

\* the store breaks a cycle of waiting connections with a deadlock error
deadlocked(b) == \E c \in waits_on(b) : b \in waits_on(c)

---------------------------------------------------------------------------
(* process_batch_insert / process_batch_update: the locals of one call     *)

NewWorker ==
    [pc |-> "queued", i |-> 1, exists |-> FALSE, rows_inserted |-> 0,
     rows_updated |-> 0, rows_with_errors |-> 0, row_results |-> <<>>,
     txn |-> <<>>, committed |-> FALSE, conn |-> "none"]

detail(row, st, msg) ==
    [row_number_excel |-> row.row_number_excel, status |-> st, message |-> msg]

\* where the loop goes after row i of n
after_row(w, n) ==
    [w EXCEPT !.i = @ + 1,
              !.pc = IF w.i = n THEN "commit"
                     ELSE IF mode = "insert" THEN "write" ELSE "check"]

\* a handler of row errors that reports the row but does not count it
row_error_uncounted(w, row, msg) ==
    [w EXCEPT !.txn = <<>>,
              !.row_results = Append(@, [row_number_excel |-> row.row_number_excel,
                                         status |-> "error", message |-> msg])]

\* "except Exception as row_error": rollback, count, report the row
row_error(w, row, msg) ==
    [w EXCEPT !.txn = rollback(@),
              !.rows_with_errors = @ + 1,
              !.row_results = Append(@, detail(row, "error", msg))]

\* the row was written
row_written(w, row, op, st) ==
    [w EXCEPT !.txn = Append(@, [op |-> op, key |-> row.key, val |-> written_val(row)]),
              !.rows_inserted = IF st = "inserted" THEN @ + 1 ELSE @,
              !.rows_updated = IF st = "updated" THEN @ + 1 ELSE @,
              !.row_results = Append(@, detail(row, st, ""))]

\* "Sin cambios"
row_skipped(w, row) ==
    [w EXCEPT !.row_results = Append(@, detail(row, "skipped", "Sin cambios"))]

\* "except Exception as e" around the whole batch: every row is reported in
\* error only when no row has been reported yet
batch_error(w, rows) ==
    [w EXCEPT !.pc = "done",
              !.txn = <<>>,
              !.conn = IF @ = "open" THEN "closed" ELSE @,
              !.row_results =
                  IF @ = <<>>
                  THEN [j \in 1..Len(rows) |-> detail(rows[j], "error", "Error en lote")]
                  ELSE @,
              !.rows_with_errors = IF w.row_results = <<>> THEN Len(rows) ELSE @]

\* the body of the loop of process_batch_insert for one row
insert_row(b, w, row) ==
    IF violates_unique(visible(b), row.key) THEN row_error(w, row, "unique")
    ELSE IF deadlocked(b) THEN row_error(w, row, "deadlock")
    ELSE row_written(w, row, "ins", "inserted")

\* a loop body that inserts the row when no record has its key, whatever
\* the mode
update_row_upsert(b, w, row) ==
    IF row.key = NULL THEN row_error(w, row, "null_key")
    ELSE IF w.exists THEN row_written(w, row, "upd", "updated")
    ELSE insert_row(b, w, row)

\* the second half of the body of the loop of process_batch_update for one
\* row, after the SELECT
update_row(b, w, row) ==
    IF row.key = NULL THEN row_error(w, row, "null_key")
    ELSE IF w.exists
    THEN IF non_key_columns(columns, <<"key">>) # <<>>
         THEN IF deadlocked(b) THEN row_error(w, row, "deadlock")
              ELSE row_written(w, row, "upd", "updated")
         ELSE row_skipped(w, row)
    ELSE IF mode = "sync"
         THEN insert_row(b, w, row)
         ELSE row_error(w, row, "not_found")

GenRunning == {b \in 1..Len(gbatches) : wk[b].pc \in {"check", "write", "commit"}}

\* a thread of the pool is free and b is the next submitted batch
can_start(b) ==
    /\ wk[b].pc = "queued"
    /\ \A c \in 1..(b - 1) : wk[c].pc # "queued"
    /\ Cardinality(GenRunning) < max_workers

\* psycopg2.connect(**conn_params) and conn.cursor()
GenConnect(b) ==
    /\ gpc = "pool"
    /\ can_start(b)
    /\ wk' = [wk EXCEPT ![b].pc = IF mode = "insert" THEN "write" ELSE "check",
                        ![b].conn = "open"]
    /\ UNCHANGED <<fkVars, table, unique_key, columns, data_list, gpc, gbatches,
                   collected, greport, jobVars, histVars, lockVars>>

\* the SELECT of process_batch_update
GenCheck(b) ==
    /\ gpc = "pool"
    /\ wk[b].pc = "check"
    /\ LET row == gbatches[b][wk[b].i]
       IN wk' = [wk EXCEPT ![b].exists = row.key # NULL /\ key_exists(visible(b), row.key),
                           ![b].pc = "write"]
    /\ UNCHANGED <<fkVars, table, unique_key, columns, data_list, gpc, gbatches,
                   collected, greport, jobVars, histVars, lockVars>>

\* the INSERT or UPDATE of one row, or its error
GenWrite(b) ==
    /\ gpc = "pool"
    /\ wk[b].pc = "write"
    /\ waits_on(b) = {} \/ deadlocked(b)
    /\ LET row == gbatches[b][wk[b].i]
           w == IF mode = "insert" THEN insert_row(b, wk[b], row)
                ELSE update_row(b, wk[b], row)
       IN wk' = [wk EXCEPT ![b] = after_row(w, Len(gbatches[b]))]
    /\ UNCHANGED <<fkVars, table, unique_key, columns, data_list, gpc, gbatches,
                   collected, greport, jobVars, histVars, lockVars>>

\* conn.commit() after the last row, then the connection is closed
GenCommit(b) ==
    /\ gpc = "pool"
    /\ wk[b].pc = "commit"
    /\ table' = apply_ops(table, wk[b].txn)
    /\ wk' = [wk EXCEPT ![b].pc = "done", ![b].txn = <<>>, ![b].committed = TRUE,
                        ![b].conn = "closed"]
    /\ UNCHANGED <<fkVars, unique_key, columns, data_list, gpc, gbatches,
                   collected, greport, jobVars, histVars, lockVars>>

\* the connection cannot be opened, or is lost
GenLost(b) ==
    /\ gpc = "pool"
    /\ nfail < MaxFail
    /\ IF wk[b].pc = "queued" THEN can_start(b) ELSE b \in GenRunning
    /\ wk' = [wk EXCEPT ![b] = batch_error(wk[b], gbatches[b])]
    /\ nfail' = nfail + 1
    /\ UNCHANGED <<fkVars, table, unique_key, columns, data_list, gpc, gbatches,
                   collected, greport, jobVars, lockVars>>
    /\ UNCHANGED <<attempts, retry_cause, last_fail, committed, run, store0>>

---------------------------------------------------------------------------
(* insert_data_to_table_optimized                                          *)

\* data_list[i:i + batch_size] for i in range(0, len(data_list), batch_size)
gen_slices(rows) ==
    [k \in 1..((Len(rows) + batch_size - 1) \div batch_size) |->
        SubSeq(rows, (k - 1) * batch_size + 1,
               IF k * batch_size < Len(rows) THEN k * batch_size ELSE Len(rows))]

\* clean_table_for_insert: TRUNCATE, committed at once
clean_table_for_insert(tbl) == <<>>

\* the referenced tables: pairs (lookup_column, foreign_column).  The
\* lookup column of the table referenced by ref holds a name and an integer.
foreign_rows(col) ==
    IF col = "ref" THEN {<<"n1", "1">>, <<"int:2", "2">>} ELSE {<<"d1", "7">>}

\* a string that reads as a number is sent to the query as an integer
clean_value_for_query(val) == IF val = "2" THEN "int:2" ELSE val

InColumns(cols, col) == \E j \in 1..Len(cols) : cols[j] = col

\* df[col].dropna().unique()
unique_values(frame, col) == {frame[i][col] : i \in 1..Len(frame)} \ {NULL}

\* the mapped columns for which a lookup query is run
looked_up(frame, cols, maps) ==
    {col \in maps : InColumns(cols, col) /\ unique_values(frame, col) # {}}

\* dict(cursor.fetchall()) of the lookup query of one column
lookup_results(frame, col) ==
    {pr \in foreign_rows(col) :
        pr[1] \in {clean_value_for_query(v) : v \in unique_values(frame, col)}}

\* Series.map(lookup_results) on one value
map_value(v, results) ==
    IF \E pr \in results : pr[1] = v
    THEN (CHOOSE pr \in results : pr[1] = v)[2]
    ELSE NULL

\* a resolution that looks every value up on its own: one query for each
\* non-null value of a mapped column
resolve_foreign_keys_per_row(frame, cols, maps) ==
    [df |-> [i \in 1..Len(frame) |->
                [c \in DOMAIN frame[i] |->
                    IF c \in looked_up(frame, cols, maps)
                    THEN map_value(frame[i][c], lookup_results(frame, c))
                    ELSE frame[i][c]]],
     queries |-> Cardinality({<<i, c>> \in (1..Len(frame)) \X looked_up(frame, cols, maps) :
                                 frame[i][c] # NULL})]

\* resolve_foreign_keys_batch: the resolved rows and the number of lookup
\* queries executed
resolve_foreign_keys_batch(frame, cols, maps) ==
    [df |-> [i \in 1..Len(frame) |->
                [c \in DOMAIN frame[i] |->
                    IF c \in looked_up(frame, cols, maps)
                    THEN map_value(frame[i][c], lookup_results(frame, c))
                    ELSE frame[i][c]]],
     queries |-> Cardinality(looked_up(frame, cols, maps))]

\* an entry that carries the value of the resolved frame, which is null
fk_error_resolved_value(row, resolved_row, maps) ==
    [row_number_excel |-> row.row_number_excel, status |-> "error",
     message |-> [error |-> "fk",
                  failed |-> {<<col, resolved_row[col]>> :
                                 col \in {c \in maps : resolved_row[c] = NULL}}]]

\* the entry of fk_error_row_details for a row: the mapped columns that are
\* null after the resolution, each with the value of the upload
fk_error(row, resolved_row, maps) ==
    [row_number_excel |-> row.row_number_excel, status |-> "error",
     message |-> [error |-> "fk",
                  failed |-> {<<col, row[col]>> :
                                 col \in {c \in maps : resolved_row[c] = NULL}}]]

\* the validation of the FKs before the batches: the rows to process, the
\* refused rows, the queries run; raised when a mapped column is not a column
\* of the upload (df_resolved[fk_columns] fails)
validate_fks(frame, cols, maps) ==
    LET res == resolve_foreign_keys_batch(frame, cols, maps)
        ok == \A col \in maps : InColumns(cols, col)
        errs == [i \in 1..Len(frame) |-> fk_error(frame[i], res.df[i], maps)]
    IN [raised |-> ~ok,
        queries |-> res.queries,
        df_to_process |->
            IF ok THEN SelectSeq(res.df, LAMBDA r : \A col \in maps : r[col] # NULL)
            ELSE <<>>,
        errors |->
            IF ok THEN SelectSeq(errs, LAMBDA e : e.message.failed # {}) ELSE <<>>]

\* sorted(details, key=lambda x: x["row_number_excel"])
sorted_details(all) ==
    LET N == Max({0} \cup {all[j].row_number_excel : j \in 1..Len(all)})
        f[n \in 0..N] ==
            IF n = 0 THEN <<>>
            ELSE f[n - 1] \o SelectSeq(all, LAMBDA r : r.row_number_excel = n)
    IN f[N]

\* the consolidation of all_results
gen_consolidate(ws, fk_errors) ==
    LET ins == SumSeq([b \in 1..Len(ws) |-> ws[b].rows_inserted])
        upd == SumSeq([b \in 1..Len(ws) |-> ws[b].rows_updated])
        all == Flatten([b \in 1..Len(ws) |-> ws[b].row_results])
    IN [inserted |-> ins, updated |-> upd,
        errors |-> Len(fk_errors)
                   + SumSeq([b \in 1..Len(ws) |-> ws[b].rows_with_errors]),
        total |-> ins + upd,
        row_details |-> sorted_details(fk_errors \o all),
        batches_processed |-> Len(ws)]

\* columns of the target table, from information_schema.columns
table_columns == {"key", "val", "ref", "dep"}

\* reverse_mapping[target]: the source of the last entry of column_mapping
\* with that target
source_of(mapping, target) ==
    mapping[Max({j \in 1..Len(mapping) : mapping[j][2] = target})][1]

\* the keys of reverse_mapping, in the order in which the dict got them
targets(mapping) ==
    LET f[n \in 0..Len(mapping)] ==
            IF n = 0 THEN <<>>
            ELSE IF InColumns(f[n - 1], mapping[n][2]) THEN f[n - 1]
                 ELSE Append(f[n - 1], mapping[n][2])
    IN f[Len(mapping)]

\* a selection that does not look at the columns of the upload
valid_mapped_columns_any_source(mapping, ucols) ==
    SelectSeq(targets(mapping), LAMBDA t : t \in table_columns)

\* valid_mapped_columns: the targets that are columns of the table and whose
\* source is a column of the upload; they are the columns of df_final
valid_mapped_columns(mapping, ucols) ==
    SelectSeq(targets(mapping),
              LAMBDA t : t \in table_columns /\ InColumns(ucols, source_of(mapping, t)))

\* valid_columns: without a mapping, the columns of the upload that are
\* columns of the table
valid_columns(ucols) == SelectSeq(ucols, LAMBDA c : c \in table_columns)

\* the columns of df_final
mapped_columns(mapping, ucols) ==
    IF mapping # <<>> THEN valid_mapped_columns(mapping, ucols)
    ELSE valid_columns(ucols)

\* key_columns: the key columns named by the user that df_to_process has
key_columns_of(cols) == SelectSeq(cols, LAMBDA c : c = "key")

\* how the loader leaves its first part: HTTP 400 for a mapping without a
\* usable column, the return for an empty frame, the error of the FK
\* validation, the return when every row was refused, HTTP 400 without key
\* column in update and sync mode, or the submission of the batches
start_exit(cols, v) ==
    IF cols = <<>> THEN "bad_mapping"
    ELSE IF df_final = <<>> THEN "empty"
    ELSE IF v.raised THEN "fk_raised"
    ELSE IF v.df_to_process = <<>> THEN "all_rejected"
    ELSE IF mode # "insert" /\ key_columns_of(cols) = <<>> THEN "no_key"
    ELSE "pool"

\* get_db_connection, truncation in insert mode, the column mapping, the
\* validation of the FKs, the batches and their submission to the pool.  The
\* early returns and the raised errors close nothing: the connection stays
\* open until the interpreter finalizes the object.
GenStart ==
    /\ gpc = "start"
    /\ table' = IF mode = "insert" THEN clean_table_for_insert(table) ELSE table
    /\ \E cols \in {mapped_columns(column_mapping, upload_columns)} :
       \E v \in {validate_fks(df_final, cols, fk_mappings)} :
       \E exit \in {start_exit(cols, v)} :
          /\ columns' = cols
          /\ lookup_queries' = IF exit \in {"bad_mapping", "empty"} THEN 0 ELSE v.queries
          /\ fk_error_row_details' =
                IF exit \in {"all_rejected", "no_key", "pool"} THEN v.errors ELSE <<>>
          /\ data_list' = IF exit = "pool" THEN v.df_to_process ELSE <<>>
          /\ gbatches' = gen_slices(data_list')
          /\ wk' = [b \in 1..Len(gbatches') |-> NewWorker]
          /\ gpc' = IF exit = "pool" THEN "pool"
                    ELSE IF exit \in {"empty", "all_rejected"} THEN "done"
                    ELSE "raised"
          /\ http_status' = IF exit \in {"bad_mapping", "no_key"} THEN 400
                            ELSE IF exit = "fk_raised" THEN 500 ELSE 0
          /\ greport' =
                IF exit = "empty"
                THEN [inserted |-> 0, updated |-> 0, errors |-> 0, total |-> 0,
                      row_details |-> <<>>]
                ELSE IF exit = "all_rejected"
                THEN [inserted |-> 0, updated |-> 0,
                      errors |-> Len(v.errors), total |-> 0,
                      row_details |-> v.errors, batches_processed |-> 0]
                ELSE greport
          /\ conn' \in IF exit = "pool" THEN {"open"} ELSE {"open", "closed"}
    /\ UNCHANGED <<table0, df_final, fk_mappings, column_mapping, upload_columns,
                   unique_key, collected, jobVars, histVars, lockVars>>

\* as_completed: the future of a finished batch is read
GenCollect(b) ==
    /\ gpc = "pool"
    /\ wk[b].pc = "done"
    /\ b \notin collected
    /\ collected' = collected \cup {b}
    /\ UNCHANGED <<fkVars, table, unique_key, columns, data_list, gpc, gbatches, wk,
                   greport, jobVars, histVars, lockVars>>

\* the totals and the report
GenFinish ==
    /\ gpc = "pool"
    /\ collected = 1..Len(gbatches)
    /\ greport' = gen_consolidate(wk, fk_error_row_details)
    /\ conn' = "closed"
    /\ gpc' = "done"
    /\ UNCHANGED <<table0, df_final, fk_mappings, lookup_queries,
                   fk_error_row_details, column_mapping, upload_columns,
                   http_status, table, unique_key, columns, data_list, gbatches,
                   wk, collected, jobVars, histVars, lockVars>>

\* rows of the upload: a key, a value, a column ref that may be mapped to a
\* referenced table
GenRow(k, r) == [key |-> k, val |-> "v", ref |-> r, dep |-> NULL]

GenRowValues == {GenRow(k, "n1") : k \in {"k1", "k2", NULL}}

FkRowValues == {GenRow(k, r) : k \in {"k1", "k2"}, r \in {"n1", "n9", NULL}}

\* the rows with their Excel row number (index + 2 of the DataFrame)
Numbered(vals) ==
    [i \in 1..Len(vals) |->
        [c \in DOMAIN vals[i] \cup {"row_number_excel"} |->
            IF c = "row_number_excel" THEN i + 1 ELSE vals[i][c]]]

GenInputs ==
    {Numbered(vals) : vals \in UNION {[1..n -> GenRowValues] : n \in 1..MaxGenRows}}

FkInputs ==
    {Numbered(vals) : vals \in UNION {[1..n -> FkRowValues] : n \in 1..MaxGenRows}}

\* the columns of the upload and the mappings of them to key, val and ref
Upload == <<"Key", "Val", "Ref">>
MapK == <<(<<"Key", "key">>)>>
MapKV == <<(<<"Key", "key">>), (<<"Val", "val">>)>>
MapKVR == <<(<<"Key", "key">>), (<<"Val", "val">>), (<<"Ref", "ref">>)>>

\* mappings of a column that the upload does not have, to a column that the
\* table does not have, of two columns to one target of which the later one
\* is missing, and a mapping that leaves the key out
OtherMappings ==
    { <<(<<"Other", "key">>)>>,
      <<(<<"Key", "other">>)>>,
      <<(<<"Val", "key">>), (<<"Other", "key">>)>>,
      <<(<<"Val", "val">>)>> }

\* a call without FK mappings
InitPlain ==
    /\ mode \in {"insert", "update", "sync"}
    /\ unique_key \in BOOLEAN
    /\ column_mapping \in {MapKV} \cup (IF mode = "update" THEN {MapK} ELSE {})
    /\ upload_columns = Upload
    /\ table \in {<<[key |-> "k1", val |-> "w"]>>}
                 \cup (IF mode = "insert" THEN {} ELSE {<<>>})
    /\ df_final \in GenInputs
    /\ fk_mappings = {}

\* a call with column ref mapped, or with a mapping for a column that the
\* upload does not have
InitMapped ==
    /\ mode = "sync"
    /\ unique_key = TRUE
    /\ column_mapping = MapKVR
    /\ upload_columns = Upload
    /\ table = <<[key |-> "k1", val |-> "w"]>>
    /\ df_final \in FkInputs
    /\ fk_mappings \in {{"ref"}, {"ref", "dep"}}

\* calls with any of the column mappings, with none, on an upload whose
\* columns are named as the table's or not, on an empty frame
InitMappings ==
    /\ mode \in {"insert", "update", "sync"}
    /\ unique_key = TRUE
    /\ column_mapping \in OtherMappings \cup {MapKV, <<>>}
    /\ upload_columns \in {Upload, <<"key", "val">>}
    /\ mode = "insert" =>
          \/ mapped_columns(column_mapping, upload_columns) = <<>>
          \/ InColumns(mapped_columns(column_mapping, upload_columns), "key")
    /\ table = <<[key |-> "k1", val |-> "w"]>>
    /\ df_final \in {<<>>, Numbered(<<GenRow("k1", "n1")>>),
                     Numbered(<<GenRow("k1", "n1"), GenRow("k2", "n1")>>)}
    /\ fk_mappings = {}

InitGen ==
    /\ InitPlain \/ InitMapped \/ InitMappings
    /\ columns = <<>>
    /\ http_status = 0
    /\ conn = "none"
    /\ table0 = table
    /\ lookup_queries = 0
    /\ fk_error_row_details = <<>>
    /\ data_list = <<>>
    /\ gpc = "start"
    /\ gbatches = <<>>
    /\ wk = <<>>
    /\ collected = {}
    /\ greport = <<>>
    /\ nfail = 0
    /\ JobIdle
    /\ LockIdle

NextGen ==
    \/ GenStart
    \/ \E b \in 1..Len(gbatches) : GenConnect(b)
    \/ \E b \in 1..Len(gbatches) : GenCheck(b)
    \/ \E b \in 1..Len(gbatches) : GenWrite(b)
    \/ \E b \in 1..Len(gbatches) : GenCommit(b)
    \/ \E b \in 1..Len(gbatches) : GenLost(b)
    \/ \E b \in 1..Len(gbatches) : GenCollect(b)
    \/ GenFinish

SpecGen == InitGen /\ [][NextGen]_vars

---------------------------------------------------------------------------
(* resolve_foreign_keys_batch called on a frame                            *)

FkCallRow(r, d) == [key |-> "k1", val |-> "v", ref |-> r, dep |-> d]

\* references by name, by a number written as text, unknown, or missing; a
\* second reference that is missing or known
FkCallRowValues ==
    {FkCallRow(r, d) : r \in {"n1", "n9", "2", NULL}, d \in {NULL, "d1"}}

FkCallInputs ==
    {Numbered(vals) : vals \in UNION {[1..n -> FkCallRowValues] : n \in 0..MaxFkRows}}

\* the function is about to be called on df_final, whose columns may or may
\* not include dep, with any of the mappings of ref and dep
InitFk ==
    /\ mode = "sync"
    /\ unique_key = TRUE
    /\ columns \in {<<"key", "val", "ref">>, <<"key", "val", "ref", "dep">>}
    /\ table = <<>>
    /\ table0 = <<>>
    /\ column_mapping = <<>>
    /\ upload_columns = <<>>
    /\ http_status = 0
    /\ conn = "open"
    /\ df_final \in FkCallInputs
    /\ fk_mappings \in SUBSET {"ref", "dep"}
    /\ lookup_queries = 0
    /\ fk_error_row_details = <<>>
    /\ data_list = <<>>
    /\ gpc = "fk"
    /\ gbatches = <<>>
    /\ wk = <<>>
    /\ collected = {}
    /\ greport = <<>>
    /\ nfail = 0
    /\ JobIdle
    /\ LockIdle

\* the call: the resolved frame is returned, the queries were executed
FkResolve ==
    /\ gpc = "fk"
    /\ \E r \in {resolve_foreign_keys_batch(df_final, columns, fk_mappings)} :
          /\ data_list' = r.df
          /\ lookup_queries' = r.queries
    /\ gpc' = "fk_done"
    /\ UNCHANGED <<table, table0, df_final, fk_mappings, fk_error_row_details,
                   column_mapping, upload_columns, http_status, conn,
                   unique_key, columns, gbatches, wk, collected, greport,
                   jobVars, histVars, lockVars>>

NextFk == FkResolve

SpecFk == InitFk /\ [][NextFk]_vars

---------------------------------------------------------------------------
(* _global_error_count and _error_count_lock, statement by statement       *)
(*                                                                         *)
(* Thread 0 is the thread of process_expedientes_data_improved, threads    *)
(* 1..NThreads are workers running process_batch_improved.  "+= 1" on a    *)
(* global is a load followed by a store.                                   *)

Workers == 1..NThreads

at(t, pc) == [th EXCEPT ![t].pc = pc]

\* the job is called; the counter holds what an earlier job left
InitLock ==
    /\ df = <<>>
    /\ hashOf = <<>>
    /\ mode = "sync"
    /\ expedientes = <<>>
    /\ jpc = "lock"
    /\ batches = <<>>
    /\ status = <<>>
    /\ retry_count = <<>>
    /\ batch_results = <<>>
    /\ global_error_count \in 0..LockCap
    /\ all_results = <<>>
    /\ report = <<>>
    /\ attempts = <<>>
    /\ retry_cause = <<>>
    /\ last_fail = <<>>
    /\ committed = <<>>
    /\ nfail = 0
    /\ run = 1
    /\ store0 = <<>>
    /\ GenIdle
    /\ lock = {}
    /\ th = [t \in 0..NThreads |->
                [pc |-> IF t = 0 THEN "reset" ELSE "unborn", tmp |-> 0,
                 todo |-> MaxErrors]]
    /\ handled = 0

\* "with _error_count_lock:" of the reset
ResetAcquire ==
    /\ th[0].pc = "reset"
    /\ lock = {}
    /\ lock' = {0}
    /\ th' = at(0, "reset_store")
    /\ UNCHANGED <<jobVars, histVars, genVars, handled>>

\* "_global_error_count = 0"
ResetStore ==
    /\ th[0].pc = "reset_store"
    /\ global_error_count' = 0
    /\ th' = at(0, "reset_release")
    /\ UNCHANGED <<df, hashOf, mode, expedientes, jpc, batches, status, retry_count,
                   batch_results, all_results, report, histVars, genVars, lock,
                   handled>>

\* the end of the with block, then the batches are submitted to the pool
ResetRelease ==
    /\ th[0].pc = "reset_release"
    /\ lock' = lock \ {0}
    /\ th' = [t \in 0..NThreads |->
                 [th[t] EXCEPT !.pc = IF t = 0 THEN "submitted" ELSE "run"]]
    /\ UNCHANGED <<jobVars, histVars, genVars, handled>>

\* a statement of the worker fails: one of the four handlers is entered
StatementError(t) ==
    /\ th[t].pc = "run"
    /\ th[t].todo > 0
    /\ th' = [th EXCEPT ![t].pc = "handler", ![t].todo = @ - 1]
    /\ UNCHANGED <<jobVars, histVars, genVars, lock, handled>>

\* the worker has no batch left
WorkerEnd(t) ==
    /\ th[t].pc = "run"
    /\ th' = at(t, "ended")
    /\ UNCHANGED <<jobVars, histVars, genVars, lock, handled>>

\* a handler that enters the block without waiting for the lock
Acquire_no_lock(t) ==
    /\ th[t].pc = "handler"
    /\ lock' = lock \cup {t}
    /\ th' = at(t, "test")
    /\ UNCHANGED <<jobVars, histVars, genVars, handled>>

\* "with _error_count_lock:" of a handler
Acquire(t) ==
    /\ th[t].pc = "handler"
    /\ lock = {}
    /\ lock' = {t}
    /\ th' = at(t, "test")
    /\ UNCHANGED <<jobVars, histVars, genVars, handled>>

\* "if _global_error_count < 20:"
Test(t) ==
    /\ th[t].pc = "test"
    /\ th' = at(t, IF global_error_count < LockCap THEN "load" ELSE "release")
    /\ UNCHANGED <<jobVars, histVars, genVars, lock, handled>>

\* "_global_error_count += 1": the load
Load(t) ==
    /\ th[t].pc = "load"
    /\ th' = [th EXCEPT ![t].pc = "store", ![t].tmp = global_error_count]
    /\ UNCHANGED <<jobVars, histVars, genVars, lock, handled>>

\* "_global_error_count += 1": the store
Store(t) ==
    /\ th[t].pc = "store"
    /\ global_error_count' = th[t].tmp + 1
    /\ th' = at(t, "release")
    /\ UNCHANGED <<df, hashOf, mode, expedientes, jpc, batches, status, retry_count,
                   batch_results, all_results, report, histVars, genVars, lock,
                   handled>>

\* the end of the with block of a handler
Release(t) ==
    /\ th[t].pc = "release"
    /\ lock' = lock \ {t}
    /\ handled' = handled + 1
    /\ th' = at(t, "run")
    /\ UNCHANGED <<jobVars, histVars, genVars>>

NextLock ==
    \/ ResetAcquire
    \/ ResetStore
    \/ ResetRelease
    \/ \E t \in Workers : StatementError(t)
    \/ \E t \in Workers : WorkerEnd(t)
    \/ \E t \in Workers : Acquire(t)
    \/ \E t \in Workers : Test(t)
    \/ \E t \in Workers : Load(t)
    \/ \E t \in Workers : Store(t)
    \/ \E t \in Workers : Release(t)

SpecLock == InitLock /\ [][NextLock]_vars

---------------------------------------------------------------------------
(* Either job, run to its end: the threads of the pool and the thread that *)
(* collects the futures are never suspended for ever                       *)

\* a job of at most two rows over two partition functions
InitJobRun ==
    /\ InitJob
    /\ Len(df) <= MaxRunRows
    /\ hashOf["A"] = 0
    /\ hashOf["nan"] = 0

\* a call of the loader of one or two rows whose column mapping is usable and
\* whose mapped columns exist
InitGenRun ==
    /\ InitGen
    /\ column_mapping \in {MapK, MapKV, MapKVR}
    /\ upload_columns = Upload
    /\ df_final # <<>>
    /\ Len(df_final) <= MaxRunRows
    /\ unique_key
    /\ fk_mappings \subseteq {"ref"}

InitRun == InitJobRun \/ InitGenRun

NextRun == NextJob \/ NextGen

SpecRun == InitRun /\ [][NextRun]_vars /\ WF_vars(NextRun)

---------------------------------------------------------------------------
(* Properties of process_expedientes_data_improved (SpecJob)               *)

\* the business keys of the rows of a batch
nros(rows) == {rows[i]["nro_expediente"] : i \in 1..Len(rows)} \ {NULL}

\* C1: at no point of a job are two batches that hold rows of the same
\* nro_expediente being processed by two worker threads at the same time.
C1_OneWorkerPerKey ==
    \A b \in Running : \A c \in Running :
        b # c => nros(batches[b].rows) \cap nros(batches[c].rows) = {}

\* nothing of the job reached the table: no attempt of a batch that had rows
\* to write was committed
EveryRowFailed ==
    /\ expedientes = store0
    /\ \A b \in 1..Len(batches) :
          ~committed[b] \/ temp_data(batches[b].rows) = <<>>

\* C10: when every row of a job fails, the error count of the job is the
\* number of rows and the merged list of detailed errors is within the cap.
C10_ErrorCountExactDetailsCapped ==
    (jpc = "done" /\ EveryRowFailed) =>
        /\ report.total_errors = Len(df)
        /\ Len(report.processing_errors) <= ErrorCap

---------------------------------------------------------------------------
(* Properties of process_batch_insert / process_batch_update (SpecGen)     *)

\* the positions of the rows of batch b reported with status st
reported(b, st) ==
    {j \in 1..Len(wk[b].row_results) : wk[b].row_results[j].status = st}

\* the row of batch b with Excel row number n
row_of(b, n) ==
    LET j == CHOOSE j \in 1..Len(gbatches[b]) : gbatches[b][j].row_number_excel = n
    IN gbatches[b][j]

\* C2: after the commit of a batch, every row of it that was reported as
\* inserted or updated is present in the table: the failure of a later row of
\* the batch undoes the write of that row only.
C2_ReportedRowsAreStored ==
    \A b \in 1..Len(wk) :
        wk[b].committed =>
            \A j \in reported(b, "inserted") \cup reported(b, "updated") :
                row_of(b, wk[b].row_results[j].row_number_excel).key \in KeysOf(table)

\* batch b was run by process_batch_insert to its commit, and exactly one of
\* its rows violated the unique constraint, no other row failing
OneUniqueViolation(b) ==
    /\ mode = "insert"
    /\ wk[b].committed
    /\ Cardinality({j \in reported(b, "error") :
                       wk[b].row_results[j].message = "unique"}) = 1
    /\ Cardinality(reported(b, "error")) = 1

\* C3: a batch of N rows given to process_batch_insert in which exactly one
\* row violates the unique constraint returns N - 1 rows with status
\* 'inserted' and one row with status 'error', and counts them so.
C3_RowIsolationOfOutcomes ==
    \A b \in 1..Len(wk) :
        OneUniqueViolation(b) =>
            /\ Len(wk[b].row_results) = Len(gbatches[b])
            /\ Cardinality(reported(b, "inserted")) = Len(gbatches[b]) - 1
            /\ wk[b].rows_inserted = Len(gbatches[b]) - 1
            /\ wk[b].rows_with_errors = 1

\* a batch of two rows whose first row is the one in violation
C3_Witness ==
    \E b \in 1..Len(wk) :
        /\ OneUniqueViolation(b)
        /\ Len(gbatches[b]) = 2
        /\ wk[b].row_results[1].status = "error"
        /\ wk[b].row_results[2].status = "inserted"

---------------------------------------------------------------------------
(* Properties of process_batch_improved (SpecBatch, SpecRetry)             *)

\* the call has returned and its last attempt was committed
ReturnedCommitted == status[1] = "returned" /\ committed[1]

\* row i of the batch as the decision loop sees it
Resolved(i) == ResolveCedula(data_filtered(batches[1].rows[i]))

KeyedRows == {i \in 1..Len(batches[1].rows) : HasNro(data_filtered(batches[1].rows[i]))}

Norm(v) == IF v = NULL THEN NULL ELSE Strip(v)

\* some compared field of the record differs from the row
Differs(rec, d) == \E f \in ComparedFields : Norm(rec[f]) # Norm(Get(d, f))

SameNro(rec, d) == rec["nro_expediente"] = d["nro_expediente"]

Action(i) ==
    {batch_results[1].processed_details[n].action :
        n \in {m \in 1..Len(batch_results[1].processed_details) :
                  batch_results[1].processed_details[m].excel_row = i + 1}}

\* C4: a second sync run on the same input, against the table left by the
\* first run, reports no insert and no update.
C4_SyncIdempotence ==
    (mode = "sync" /\ run = 2 /\ ReturnedCommitted /\ attempts[1] = 1) =>
        /\ batch_results[1].rows_inserted = 0
        /\ batch_results[1].rows_updated = 0

\* row i carries the business key of existing records, and differs from each
\* of them in a compared field
StructuralChange(i) ==
    /\ i \in KeyedRows
    /\ \E j \in 1..Len(store0) : SameNro(store0[j], Resolved(i))
    /\ \A j \in 1..Len(store0) :
          SameNro(store0[j], Resolved(i)) => Differs(store0[j], Resolved(i))

\* C5: in sync mode a row that has the business key of an existing record
\* and differs from it in a compared field is inserted as a new record, not
\* written as an update, and the records that no row of the batch matches keep
\* every field.
C5_StructuralChangeForcesInsert ==
    (mode = "sync" /\ ReturnedCommitted) =>
        \A i \in 1..Len(batches[1].rows) :
            StructuralChange(i) =>
                /\ Action(i) = {"ANADIDO"}
                /\ \E j \in (Len(store0) + 1)..Len(expedientes) :
                      SameNro(expedientes[j], Resolved(i))
                /\ \A j \in 1..Len(store0) :
                      (\A k \in KeyedRows :
                          SameNro(store0[j], Resolved(k)) => Differs(store0[j], Resolved(k)))
                      => expedientes[j] = store0[j]

\* a committed sync call with a row that changes observaciones of an
\* existing expediente
C5_Witness ==
    /\ mode = "sync"
    /\ ReturnedCommitted
    /\ \E i \in 1..Len(batches[1].rows) :
          /\ StructuralChange(i)
          /\ Get(Resolved(i), "observaciones") # NULL

\* C6: in sync mode a row whose compared fields all match an existing record
\* of its business key is written as an update of that record, not inserted,
\* and the update changes volatile fields only.
C6_UpdateTouchesVolatileOnly ==
    (mode = "sync" /\ ReturnedCommitted) =>
        \A i \in KeyedRows : \A j \in 1..Len(store0) :
            (SameNro(store0[j], Resolved(i)) /\ should_update(store0[j], Resolved(i))) =>
                /\ "ANADIDO" \notin Action(i)
                /\ \A c \in Columns \ VolatileFields : expedientes[j][c] = store0[j][c]

C8_OnlyTransientRetried ==
    attempts[1] > 1 => retry_cause[1] = "transient"

\* C9: when every attempt of a batch fails with a transient failure, every
\* row of the batch is reported as errored, with the message of the exhausted
\* retries, and none as inserted or updated.
C9_ExhaustionReportsEveryRow ==
    (/\ status[1] = "returned"
     /\ attempts[1] = max_retries + 1
     /\ retry_cause[1] = "transient"
     /\ last_fail[1].kind = "transient") =>
        /\ batch_results[1].rows_with_errors = Len(batches[1].rows)
        /\ batch_results[1].rows_inserted = 0
        /\ batch_results[1].rows_updated = 0
        /\ batch_results[1].errors = <<"deadlock_persistente">>

\* C11: when a sync call returns, rows_inserted + rows_updated +
\* rows_with_errors is the number of rows of the batch, and nothing is
\* counted as inserted or updated unless the attempt that wrote it was
\* committed.
C11_CountsExactUnderRetry ==
    (mode = "sync" /\ status[1] = "returned") =>
        /\ batch_results[1].rows_inserted + batch_results[1].rows_updated
              + batch_results[1].rows_with_errors = Len(batches[1].rows)
        /\ ~committed[1] =>
              /\ batch_results[1].rows_inserted = 0
              /\ batch_results[1].rows_updated = 0

\* C13: in insert mode a row whose business key identifies no record of
\* the table is inserted as a new record and counted as inserted.
C13_InsertAbsentIsInserted ==
    (mode = "insert" /\ ReturnedCommitted) =>
        \A i \in KeyedRows :
            (\A j \in 1..Len(store0) : ~SameNro(store0[j], Resolved(i))) =>
                /\ Action(i) = {"ANADIDO"}
                /\ batch_results[1].rows_inserted >= 1
                /\ \E j \in (Len(store0) + 1)..Len(expedientes) :
                      SameNro(expedientes[j], Resolved(i))

---------------------------------------------------------------------------
(* Properties of insert_data_to_table_optimized (SpecGen)                  *)

\* the statuses reported for the row with Excel row number n
StatusOf(n) ==
    {greport.row_details[j].status :
        j \in {m \in 1..Len(greport.row_details) :
                  greport.row_details[m].row_number_excel = n}}

\* the record is in the table as it was when the loader was called
Kept(rec) == \E j \in 1..Len(table) : table[j] = rec

\* C12: in insert mode a row whose key identifies a record of the table is
\* reported as an error, and that record is left as it was.
C12_InsertExistingIsError ==
    (mode = "insert" /\ gpc = "done") =>
        \A i \in 1..Len(df_final) : \A j \in 1..Len(table0) :
            (df_final[i].key # NULL /\ df_final[i].key = table0[j].key) =>
                /\ StatusOf(df_final[i].row_number_excel) = {"error"}
                /\ Kept(table0[j])

\* C14: in update mode a row whose key matches no record is reported as an
\* error (not found), no INSERT is ever sent, and the table never gains a
\* record.
C14_UpdateAbsentIsNotFound ==
    mode = "update" =>
        /\ Len(table) = Len(table0)
        /\ \A b \in 1..Len(wk) :
              /\ \A n \in 1..Len(wk[b].txn) : wk[b].txn[n].op # "ins"
              /\ \A j \in 1..Len(wk[b].row_results) :
                    LET res == wk[b].row_results[j]
                        row == row_of(b, res.row_number_excel)
                    IN (row.key # NULL /\ row.key \notin KeysOf(table0)) =>
                          /\ res.status = "error"
                          /\ res.message \in {"not_found", "Error en lote"}

\* a committed batch of an update job with a row reported as not found
C14_Witness ==
    /\ mode = "update"
    /\ \E b \in 1..Len(wk) :
          /\ wk[b].committed
          /\ \E j \in 1..Len(wk[b].row_results) :
                wk[b].row_results[j].message = "not_found"

\* C15: in update mode, once a batch is committed, every row of it whose key
\* identifies a record is reported as updated and the record carries the
\* supplied columns, whatever the column set, when no statement of the batch
\* was chosen as a deadlock victim.
C15_UpdateExistingIsUpdated ==
    mode = "update" =>
        \A b \in 1..Len(wk) :
            (/\ wk[b].pc = "done"
             /\ wk[b].committed
             /\ \A j \in 1..Len(wk[b].row_results) :
                   wk[b].row_results[j].message # "deadlock") =>
                \A j \in 1..Len(wk[b].row_results) :
                    LET res == wk[b].row_results[j]
                        row == row_of(b, res.row_number_excel)
                    IN (row.key # NULL /\ row.key \in KeysOf(table0)) =>
                          /\ res.status = "updated"
                          /\ \E n \in 1..Len(table) :
                                /\ table[n].key = row.key
                                /\ table[n].val =
                                      IF non_key_columns(columns, <<"key">>) # <<>>
                                      THEN written_val(row)
                                      ELSE table0[n].val

---------------------------------------------------------------------------
(* Properties of both jobs run to their end (SpecRun)                      *)

\* process_expedientes_data_improved has returned its report: every batch
\* was run by a worker and has its entry in all_results
JobCompleted ==
    /\ jpc = "done"
    /\ \A b \in 1..Len(batches) : status[b] \in {"returned", "raised"}
    /\ Len(all_results) = Len(batches)
    /\ report.batches_processed = Len(batches)

\* insert_data_to_table_optimized has returned its report: every batch was
\* run by a worker and its future was read
GenCompleted ==
    /\ gpc = "done"
    /\ \A b \in 1..Len(gbatches) : wk[b].pc = "done"
    /\ greport # <<>>
    /\ greport.batches_processed = Len(gbatches)

\* C16: whatever fails in a row or in a batch (statement error, connection
\* failure, exhausted retries), the job ends by returning a report, every
\* batch was attempted and the report counts every batch.
C16_JobAlwaysCompletes == <>(JobCompleted \/ GenCompleted)

\* a job that returned its report although the call of one batch raised and
\* another batch ended with its rows in error
C16_Witness ==
    /\ JobCompleted
    /\ \E b \in 1..Len(batches) : status[b] = "raised"
    /\ \E b \in 1..Len(batches) :
          status[b] = "returned" /\ batch_results[b].rows_with_errors > 0

\* the batch was run once and nothing failed in its own call
Untroubled(b) == attempts[b] = 1 /\ last_fail[b] = NoFail

\* the batches of the loader that were not committed
Uncommitted == {b \in 1..Len(gbatches) : ~wk[b].committed}

\* C17: a connection failure costs the batch it happens in and no other.
\* In process_expedientes_data_improved a batch whose own call met no failure
\* is committed whatever happened to the other batches, its counts are those
\* of its own rows, and the report carries them as returned.  In
\* insert_data_to_table_optimized no more batches are left uncommitted than
\* connections failed, and the report carries the counts of every batch.
C17_ConnectionFailureConfined ==
    /\ jpc = "done" =>
          /\ \A b \in 1..Len(batches) :
                Untroubled(b) =>
                    /\ status[b] = "returned"
                    /\ committed[b]
                    /\ all_results[b] = batch_results[b]
                    /\ batch_results[b].rows_inserted + batch_results[b].rows_updated
                       + batch_results[b].rows_with_errors = Len(batches[b].rows)
          /\ report.added_count =
                SumSeq([b \in 1..Len(batches) |->
                           IF status[b] = "raised" THEN 0
                           ELSE batch_results[b].rows_inserted])
          /\ report.updated_count =
                SumSeq([b \in 1..Len(batches) |->
                           IF status[b] = "raised" THEN 0
                           ELSE batch_results[b].rows_updated])
    /\ (gpc = "done" /\ gbatches # <<>>) =>
          /\ Cardinality(Uncommitted) <= nfail
          /\ greport.inserted =
                SumSeq([b \in 1..Len(gbatches) |-> wk[b].rows_inserted])
          /\ greport.updated =
                SumSeq([b \in 1..Len(gbatches) |-> wk[b].rows_updated])

\* a finished job in which the connection of the first batch could not be
\* opened and the second batch inserted its row
C17_Witness ==
    /\ jpc = "done"
    /\ Len(batches) = 2
    /\ status[1] = "raised"
    /\ last_fail[1].at = "connect"
    /\ Untroubled(2)
    /\ batch_results[2].rows_inserted = 1
    /\ report.added_count = 1

---------------------------------------------------------------------------
(* Properties of the validation of foreign keys (SpecGen)                  *)

\* the value has no match in the lookup column of the table referenced by
\* col
Unmatched(col, v) ==
    v # NULL /\ \A pr \in foreign_rows(col) : pr[1] # clean_value_for_query(v)

\* the entries of a list of row details for Excel row n
EntriesFor(dets, n) == {j \in 1..Len(dets) : dets[j].row_number_excel = n}

\* C18: once the foreign keys are validated, a row whose value in a mapped
\* column has no match in the referenced table is in no batch, no worker
\* reports on it, and it has exactly one row detail, with status error and a
\* message that names the column and the value of the upload; the report of
\* the finished job carries exactly that one detail for the row.
C18_UnresolvedFkReportedNotWritten ==
    gpc \in {"pool", "done"} =>
        \A i \in 1..Len(df_final) : \A col \in fk_mappings :
            Unmatched(col, df_final[i][col]) =>
                LET n == df_final[i].row_number_excel
                IN /\ \A b \in 1..Len(gbatches) :
                         /\ EntriesFor(gbatches[b], n) = {}
                         /\ EntriesFor(wk[b].row_results, n) = {}
                   /\ Cardinality(EntriesFor(fk_error_row_details, n)) = 1
                   /\ \A j \in EntriesFor(fk_error_row_details, n) :
                         /\ fk_error_row_details[j].status = "error"
                         /\ <<col, df_final[i][col]>>
                               \in fk_error_row_details[j].message.failed
                   /\ gpc = "done" =>
                         /\ Cardinality(EntriesFor(greport.row_details, n)) = 1
                         /\ \A j \in EntriesFor(greport.row_details, n) :
                               greport.row_details[j] \in
                                   {fk_error_row_details[m] :
                                       m \in EntriesFor(fk_error_row_details, n)}

\* a finished job that reported a row with an unmatched reference and
\* inserted another row of the same upload
C18_Witness ==
    /\ gpc = "done"
    /\ fk_mappings = {"ref"}
    /\ \E i \in 1..Len(df_final) : Unmatched("ref", df_final[i].ref)
    /\ greport.inserted >= 1
    /\ greport.errors >= 1

---------------------------------------------------------------------------
(* Properties of resolve_foreign_keys_batch (SpecFk)                       *)

\* the mapped columns that the frame has and that hold a value in some row
MappedWithValue ==
    {col \in fk_mappings :
        /\ InColumns(columns, col)
        /\ \E i \in 1..Len(df_final) : df_final[i][col] # NULL}

\* C19: the number of lookup queries of a call is the number of mapped
\* columns that are present and hold at least one non-null value; it is at
\* most the number of mapped columns, whatever the number of rows.
C19_OneLookupPerMappedColumn ==
    gpc = "fk_done" =>
        /\ lookup_queries = Cardinality(MappedWithValue)
        /\ lookup_queries <= Cardinality(fk_mappings)

\* a call on a frame of the largest size, every row with a reference, two
\* columns mapped of which one holds no value: one query
C19_Witness ==
    /\ gpc = "fk_done"
    /\ Len(df_final) = MaxFkRows
    /\ fk_mappings = {"ref", "dep"}
    /\ InColumns(columns, "dep")
    /\ \A i \in 1..Len(df_final) : df_final[i].ref # NULL /\ df_final[i].dep = NULL
    /\ lookup_queries = 1

---------------------------------------------------------------------------
(* Properties of the partitioning (SpecJob)                                *)

\* the batches that hold the row with DataFrame index idx
BatchesOf(idx) ==
    {b \in 1..Len(batches) :
        \E j \in 1..Len(batches[b].rows) : batches[b].rows[j]["idx"] = idx}

\* C20: once the job has partitioned its DataFrame, every row is in one
\* batch, the partition of the batch is a number below MAX_THREADS, and any
\* two rows with the same nro_expediente are in batches of one partition.
C20_PartitionStability ==
    jpc \in {"pool", "done"} =>
        /\ \A i \in 1..Len(df) : Cardinality(BatchesOf(df[i]["idx"])) = 1
        /\ \A b \in 1..Len(batches) : batches[b].partition_id \in 0..(MAX_THREADS - 1)
        /\ \A i \in 1..Len(df) : \A j \in 1..Len(df) :
              df[i]["nro_expediente"] = df[j]["nro_expediente"] =>
                  \A b \in BatchesOf(df[i]["idx"]) : \A c \in BatchesOf(df[j]["idx"]) :
                      batches[b].partition_id = batches[c].partition_id

\* a job whose rows with one nro_expediente fill more than one batch of
\* partition 1
C20_Witness ==
    /\ jpc = "pool"
    /\ \E b \in 1..Len(batches) : \E c \in 1..Len(batches) :
          /\ b # c
          /\ nros(batches[b].rows) \cap nros(batches[c].rows) # {}
          /\ batches[b].partition_id = 1
          /\ batches[c].partition_id = 1

---------------------------------------------------------------------------
(* Properties of rows without business key (SpecJob)                       *)

\* the row has no usable nro_expediente
Keyless(row) == ~HasNro(data_filtered(row))

KeylessRows == {i \in 1..Len(df) : Keyless(df[i])}

\* C21: a row without nro_expediente is taken out before the partitions are
\* assigned, so that no batch holds it, and the report of the job counts it
\* once and lists it in the error details.
C21_KeylessRowsRejectedBeforePartitioning ==
    /\ jpc \in {"pool", "done"} =>
          \A b \in 1..Len(batches) : \A j \in 1..Len(batches[b].rows) :
              ~Keyless(batches[b].rows[j])
    /\ (jpc = "done" /\ \A b \in 1..Len(batches) : status[b] = "returned") =>
          /\ report.total_errors >= Cardinality(KeylessRows)
          /\ Len(report.processing_errors) >= Min2(Cardinality(KeylessRows), ErrorCap)
    /\ (jpc = "done" /\ nfail = 0) =>
          report.total_errors = Cardinality(KeylessRows)

---------------------------------------------------------------------------
(* Properties of the first part of insert_data_to_table_optimized (SpecGen) *)

\* no entry of the column mapping has both its source among the columns of
\* the upload and its target among the columns of the table
Unusable ==
    /\ column_mapping # <<>>
    /\ \A j \in 1..Len(column_mapping) :
          ~(/\ InColumns(upload_columns, column_mapping[j][1])
            /\ column_mapping[j][2] \in table_columns)

\* C22: a call whose column mapping has no usable entry ends with HTTP 400
\* and no batch is ever built or handed to a worker.
C22_UnusableMappingRejected ==
    (gpc # "start" /\ Unusable) =>
        /\ gpc = "raised"
        /\ http_status = 400
        /\ gbatches = <<>>
        /\ wk = <<>>

\* a call with rows to load and a mapping of a column that the upload does
\* not have, rejected
C22_Witness ==
    /\ gpc = "raised"
    /\ Unusable
    /\ df_final # <<>>
    /\ \E j \in 1..Len(column_mapping) : column_mapping[j][2] \in table_columns

---------------------------------------------------------------------------
(* Properties of the batches of a job (SpecJob)                            *)

\* the places (batch, position) of the rows of the batches
Places == {<<b, j>> \in (1..Len(batches)) \X (1..BATCH_SIZE) : j <= Len(batches[b].rows)}

RowAt(pl) == batches[pl[1]].rows[pl[2]]

\* place p comes before place q in the list of batches
Before(p, q) == p[1] < q[1] \/ (p[1] = q[1] /\ p[2] < q[2])

\* C23: the batches of a job hold every row of the DataFrame exactly once;
\* a batch is not empty, has at most BATCH_SIZE rows, all of the partition of
\* the batch; the rows of a partition follow each other through its batches
\* in the order of the DataFrame.
C23_PartitionsCoverInOrder ==
    jpc \in {"pool", "done"} =>
        /\ \A i \in 1..Len(df) :
              Cardinality({pl \in Places : RowAt(pl) = df[i]}) = 1
        /\ Cardinality(Places) = Len(df)
        /\ \A b \in 1..Len(batches) :
              /\ Len(batches[b].rows) \in 1..BATCH_SIZE
              /\ \A j \in 1..Len(batches[b].rows) :
                    partition_key(batches[b].rows[j]) = batches[b].partition_id
        /\ \A p \in Places : \A q \in Places :
              (batches[p[1]].partition_id = batches[q[1]].partition_id /\ Before(p, q))
                  => RowAt(p)["idx"] < RowAt(q)["idx"]

\* a job whose first and third row are in one batch and whose second row is
\* in a batch of the other partition
C23_Witness ==
    /\ jpc = "pool"
    /\ Len(df) = 3
    /\ \E b \in 1..Len(batches) :
          /\ Len(batches[b].rows) = 2
          /\ batches[b].rows[1]["idx"] = 0
          /\ batches[b].rows[2]["idx"] = 2

---------------------------------------------------------------------------
(* Properties of the shared error counter (SpecLock)                       *)

\* the positions inside a "with _error_count_lock" block
InBlock == {"reset_store", "reset_release", "test", "load", "store", "release"}

\* C24: the counter stays between 0 and its cap; a thread reads, tests or
\* writes the counter only while it alone holds the lock; and after the
\* reset, whenever the lock is free, the counter is the number of handlers
\* that went through the block, up to the cap: no increment is lost.
C24_CounterBoundedAndLocked ==
    /\ global_error_count \in 0..LockCap
    /\ Cardinality(lock) <= 1
    /\ \A t \in DOMAIN th : th[t].pc \in InBlock => lock = {t}
    /\ (th[0].pc = "submitted" /\ lock = {}) =>
          global_error_count = Min2(handled, LockCap)

\* both workers went through the handlers more often than the cap allows
\* and the counter stands at the cap
C24_Witness ==
    /\ th[0].pc = "submitted"
    /\ lock = {}
    /\ handled > LockCap
    /\ \A t \in Workers : th[t].todo < MaxErrors
    /\ global_error_count = LockCap

\* the call ended with an input error or with the error of the FK
\* resolution
Rejected == gpc = "raised" /\ http_status \in {400, 500}

\* C25: a call in insert mode that is rejected with an input error or with
\* an error of the FK resolution leaves in the table the records that it
\* held when the loader was called.
C25_RejectedJobLeavesTable ==
    (mode = "insert" /\ Rejected) => table = table0

---------------------------------------------------------------------------
(* Properties of the batches of the loader (SpecGen)                       *)

\* the batches that hold a row with key k
BatchesWithKey(k) ==
    {b \in 1..Len(gbatches) : \E j \in 1..Len(gbatches[b]) : gbatches[b][j].key = k}

RecordsWithKey(k) == {j \in 1..Len(table) : table[j].key = k}

\* C26: in sync mode, when rows of two batches carry a key that no record
\* had when the job started and no connection fails, the job ends with
\* exactly one record of that key.
C26_NoDuplicateInsertAcrossBatches ==
    (mode = "sync" /\ gpc = "done" /\ nfail = 0) =>
        \A k \in {"k1", "k2"} :
            (k \notin KeysOf(table0) /\ Cardinality(BatchesWithKey(k)) >= 2) =>
                Cardinality(RecordsWithKey(k)) = 1

\* the entries of the report for status st
CountStatus(st) ==
    Cardinality({j \in 1..Len(greport.row_details) : greport.row_details[j].status = st})

\* C27: the report of a finished job has exactly one row detail for every
\* row of the upload, and inserted + updated + errors + the number of
\* skipped rows is the number of rows of the upload.
C27_EveryRowAccountedOnce ==
    gpc = "done" =>
        /\ \A i \in 1..Len(df_final) :
              Cardinality(EntriesFor(greport.row_details, df_final[i].row_number_excel)) = 1
        /\ Len(greport.row_details) = Len(df_final)
        /\ greport.inserted + greport.updated + greport.errors + CountStatus("skipped")
              = Len(df_final)

---------------------------------------------------------------------------
(* Properties of the INSERT of process_batch_improved (SpecBatch)          *)

\* the rows of the batch reported as added
InsertedRows == {i \in KeyedRows : Action(i) = {"ANADIDO"}}

\* the record created for row i: the rows of the INSERT are stored in the
\* order of the batch, after the records that the table held
InsertedRecord(i) ==
    expedientes[Len(store0) + Cardinality({k \in InsertedRows : k <= i})]

\* C28: in sync mode every record created by the INSERT of a batch holds
\* each non-null field of its row, cedula aside, whatever fields the other
\* rows of the INSERT carry.
C28_InsertedRowsKeepFields ==
    (mode = "sync" /\ run = 1 /\ ReturnedCommitted /\ attempts[1] = 1) =>
        \A i \in InsertedRows : \A f \in Columns :
            Get(Resolved(i), f) # NULL =>
                InsertedRecord(i)[f] = Get(Resolved(i), f)


\* rows i and k of the batch have the same composite key and the same
\* compared fields, and the table held no record of their nro_expediente
\* when the batch started
DuplicatePair(i, k) ==
    /\ i \in KeyedRows /\ k \in KeyedRows /\ i < k
    /\ RowKey(Resolved(i)) = RowKey(Resolved(k))
    /\ \A f \in ComparedFields :
          Norm(Get(Resolved(i), f)) = Norm(Get(Resolved(k), f))
    /\ \A j \in 1..Len(store0) : ~SameNro(store0[j], Resolved(i))

\* C29: in sync mode two rows of one batch with the same composite key and
\* identical compared fields, with no matching record at batch start, create
\* one record: exactly one of the two rows is inserted.
C29_DuplicateRowsInsertOnce ==
    (mode = "sync" /\ run = 1 /\ ReturnedCommitted /\ attempts[1] = 1) =>
        \A i, k \in 1..Len(batches[1].rows) :
            DuplicatePair(i, k) =>
                /\ Cardinality({i, k} \cap InsertedRows) = 1
                /\ Len(expedientes) - Len(store0) = Cardinality(InsertedRows)


---------------------------------------------------------------------------
(* Connections of the loader (SpecGen)                                     *)

\* the connections of the job that are open: the one of
\* insert_data_to_table_optimized and the one of each batch worker
OpenConnections ==
    (IF conn = "open" THEN {0} ELSE {}) \cup
    {b \in 1..Len(wk) : wk[b].conn = "open"}

\* C30: when insert_data_to_table_optimized has returned or raised, and when
\* a batch worker has ended, every connection it opened is closed.
C30_NoConnectionOutlivesJob ==
    /\ gpc \in {"done", "raised"} => OpenConnections = {}
    /\ \A b \in 1..Len(wk) : wk[b].pc = "done" => wk[b].conn # "open"

=============================================================================
